---- MODULE Spec2Model ----
(***************************************************************************)
(* Model of ifcfg-devname (src/src/main.rs): resolution of a network       *)
(* device name from the kernel command line and from ifcfg-* files.        *)
(*                                                                         *)
(* Text is modelled as a sequence of one-character strings, so that the    *)
(* regular expressions of the program are matched character by character.  *)
(***************************************************************************)
EXTENDS Integers, Sequences, FiniteSets, TLC

VARIABLES
    pc,                  \* position of main / of the function under test
    cmdline_file,        \* the kernel cmdline file: [openable, content]
    config_dir,          \* the config directory: [readable, entries]
    simple_mac_address,  \* main: lowercase text of the target MAC
    device_config_name,  \* main: the name found so far (<<>> is "")
    ifcfg_paths,         \* main: the paths scan_config_dir returned
    idx,                 \* main: position of `for path in ifcfg_paths`
    handles,             \* the File values alive (not yet dropped)
    opened,              \* the config paths File::open was called on, in order
    dir_scans,           \* number of calls of scan_config_dir
    stdout,              \* the lines written by println!
    warnings,            \* the names passed to warn!
    status,              \* exit status of the process, Running before the exit
    ret                  \* return value of the function under test

vars == <<pc, cmdline_file, config_dir, simple_mac_address, device_config_name,
          ifcfg_paths, idx, handles, opened, dir_scans, stdout, warnings,
          status, ret>>

----------------------------------------------------------------------------
(* Characters *)

Upper == <<"A","B","C","D","E","F","G","H","I","J","K","L","M",
           "N","O","P","Q","R","S","T","U","V","W","X","Y","Z">>
Lower == <<"a","b","c","d","e","f","g","h","i","j","k","l","m",
           "n","o","p","q","r","s","t","u","v","w","x","y","z">>
Digits == <<"0","1","2","3","4","5","6","7","8","9">>

\* A byte that is not valid UTF-8.
BadByte == "<ff>"

\* The characters of the model in ascending byte order.
AsciiOrder ==
    <<"\t", "\n", "\r", " ", "#", "-", ".">> \o Digits \o <<":", "=">>
        \o Upper \o <<"_">> \o Lower \o <<BadByte>>

Code(c) == CHOOSE i \in 1..Len(AsciiOrder) : AsciiOrder[i] = c

\* \s of the regex crate, within the characters of the model.
WhiteSpace == {" ", "\t", "\n", "\r"}

\* \d of the regex crate, within the characters of the model.
IsDigit(c) == \E i \in 1..Len(Digits) : Digits[i] = c

\* [0-9A-Fa-f]
IsHex(c) ==
    \/ IsDigit(c)
    \/ \E i \in 1..6 : Upper[i] = c \/ Lower[i] = c

\* char::to_lowercase / str::to_lowercase
ToLowerChar(c) ==
    IF \E i \in 1..Len(Upper) : Upper[i] = c
    THEN Lower[CHOOSE i \in 1..Len(Upper) : Upper[i] = c]
    ELSE c

to_lowercase(s) == [i \in 1..Len(s) |-> ToLowerChar(s[i])]

\* std::str::from_utf8 on the bytes read
IsValidUtf8(s) == \A i \in 1..Len(s) : s[i] # BadByte

\* s has the literal lit at position p.
HasAt(s, p, lit) ==
    /\ p >= 1
    /\ p + Len(lit) - 1 <= Len(s)
    /\ \A i \in 1..Len(lit) : s[p + i - 1] = lit[i]

----------------------------------------------------------------------------
(* MacAddress of the mac_address crate *)

HexUpper == Digits \o SubSeq(Upper, 1, 6)

HexVal(c) ==
    LET u == IF IsDigit(c) THEN c
             ELSE Upper[CHOOSE i \in 1..6 : Upper[i] = c \/ Lower[i] = c]
    IN  (CHOOSE i \in 1..16 : HexUpper[i] = u) - 1

\* text has the shape ([0-9A-Fa-f]{2}[:]){5}([0-9A-Fa-f]{2}) at position p.
MacGroups == 6
MacTextLen == 3 * MacGroups - 1

MatchMacAt(s, p) ==
    /\ p >= 1
    /\ p + MacTextLen - 1 <= Len(s)
    /\ \A i \in 0..(MacTextLen - 1) :
          IF i % 3 = 2 THEN s[p + i] = ":" ELSE IsHex(s[p + i])

\* MacAddress::from_str on colon-separated text: <<"Ok", the six bytes>>, or
\* <<"Err">>.
MacFromStr(text) ==
    IF Len(text) = MacTextLen /\ MatchMacAt(text, 1)
    THEN <<"Ok", [g \in 1..MacGroups |->
                    16 * HexVal(text[3 * g - 2]) + HexVal(text[3 * g - 1])]>>
    ELSE <<"Err">>

\* MacAddress::to_string: upper-case hex pairs joined by ':'.
MacToString(bytes) ==
    [i \in 1..MacTextLen |->
        IF i % 3 = 0 THEN ":"
        ELSE IF i % 3 = 1 THEN HexUpper[(bytes[(i + 2) \div 3] \div 16) + 1]
        ELSE HexUpper[(bytes[(i + 1) \div 3] % 16) + 1]]

----------------------------------------------------------------------------
(* Values of Option / Result *)

None == <<"None">>
Err == <<"Err">>
Some(v) == <<"Some", v>>
IsSome(r) == r[1] = "Some"

----------------------------------------------------------------------------
(* The regular expressions *)

\* {0,14} of (\S[^:]{0,14}): the characters of a name after its first one.
NameTailMax == 14

S_ifname == <<"i","f","n","a","m","e","=">>
S_DEVICE == <<"D","E","V","I","C","E","=">>
S_HWADDR == <<"H","W","A","D","D","R","=">>
S_ifcfg == <<"i","f","c","f","g","-">>

\* s[from..to] are all characters of [^:]
NoColon(s, from, to) ==
    \A i \in from..to : i <= Len(s) /\ s[i] # ":"

\* The lengths k of [^:]{0,14} with which
\* ifname=(\S[^:]{0,14}):(([0-9A-Fa-f]{2}[:]){5}([0-9A-Fa-f]{2}))
\* matches s from position p on.
PairTails(s, p) ==
    LET q == p + Len(S_ifname)
    IN  IF HasAt(s, p, S_ifname) /\ q <= Len(s) /\ s[q] \notin WhiteSpace
        THEN {k \in 0..NameTailMax :
                 /\ NoColon(s, q + 1, q + k)
                 /\ HasAt(s, q + k + 1, <<":">>)
                 /\ MatchMacAt(s, q + k + 2)}
        ELSE {}

Max(S) == CHOOSE x \in S : \A y \in S : y <= x
Min(S) == CHOOSE x \in S : \A y \in S : x <= y

\* The match of REGEX_DEVICE_HWADDR_PAIR that starts at p: the quantifier is
\* greedy, so the longest tail wins.
PairAt(s, p) ==
    LET q == p + Len(S_ifname)
        k == Max(PairTails(s, p))
    IN  [start |-> p,
         name  |-> SubSeq(s, q, q + k),
         mac   |-> SubSeq(s, q + k + 2, q + k + MacTextLen + 1),
         end   |-> q + k + MacTextLen + 2]

\* Regex::captures_iter: the successive non-overlapping matches, leftmost
\* first, each search starting where the previous match ended.
RECURSIVE CapturesFrom(_, _)
CapturesFrom(s, from) ==
    LET ps == {p \in from..Len(s) : PairTails(s, p) # {}}
    IN  IF ps = {} THEN <<>>
        ELSE LET m == PairAt(s, Min(ps))
             IN  <<m>> \o CapturesFrom(s, m.end)

captures_iter(s) == CapturesFrom(s, 1)

\* Number of characters \s* takes at the start of the line, from the i-th on.
RECURSIVE WsFrom(_, _)
WsFrom(line, i) ==
    IF i <= Len(line) /\ line[i] \in WhiteSpace THEN 1 + WsFrom(line, i + 1) ELSE 0

LeadingWs(line) == WsFrom(line, 1)

\* REGEX_HWADDR: ^\s*HWADDR=(([0-9A-Fa-f]{2}[:]){5}([0-9A-Fa-f]{2}))
\* \s* is greedy, and gives characters back when the rest does not match.
HwaddrStarts(line) ==
    {w \in 0..LeadingWs(line) :
        /\ HasAt(line, w + 1, S_HWADDR)
        /\ MatchMacAt(line, w + 1 + Len(S_HWADDR))}

REGEX_HWADDR_is_match(line) == HwaddrStarts(line) # {}

REGEX_HWADDR_capture(line) ==
    LET q == Max(HwaddrStarts(line)) + 1 + Len(S_HWADDR)
    IN  SubSeq(line, q, q + MacTextLen - 1)

\* REGEX_DEVICE: ^\s*DEVICE=(\S[^:]{0,14})
DeviceStarts(line) ==
    {w \in 0..LeadingWs(line) :
        /\ HasAt(line, w + 1, S_DEVICE)
        /\ w + 1 + Len(S_DEVICE) <= Len(line)
        /\ line[w + 1 + Len(S_DEVICE)] \notin WhiteSpace}

REGEX_DEVICE_is_match(line) == DeviceStarts(line) # {}

REGEX_DEVICE_capture(line) ==
    LET q == Max(DeviceStarts(line)) + 1 + Len(S_DEVICE)
        k == Max({n \in 0..NameTailMax : NoColon(line, q + 1, q + n)})
    IN  SubSeq(line, q, q + k)

\* IS_NEW_DEVNAME_ETH_LIKE: ^eth\d+$
is_like_kernel_name(new_devname) ==
    /\ Len(new_devname) >= 4
    /\ HasAt(new_devname, 1, <<"e","t","h">>)
    /\ \A i \in 4..Len(new_devname) : IsDigit(new_devname[i])

----------------------------------------------------------------------------
(* Files *)

\* BufRead::read_line: the bytes up to and including the first '\n'.
read_line(content) ==
    LET nl == {i \in 1..Len(content) : content[i] = "\n"}
    IN  IF nl = {} THEN content ELSE SubSeq(content, 1, Min(nl))

\* BufRead::lines: the lines without their "\n" or "\r\n".
RECURSIVE lines(_)
lines(content) ==
    IF content = <<>> THEN <<>>
    ELSE LET l    == read_line(content)
             rest == SubSeq(content, Len(l) + 1, Len(content))
             noNl == IF l[Len(l)] = "\n" THEN SubSeq(l, 1, Len(l) - 1) ELSE l
             noCr == IF l[Len(l)] = "\n" /\ noNl # <<>> /\ noNl[Len(noNl)] = "\r"
                     THEN SubSeq(noNl, 1, Len(noNl) - 1) ELSE noNl
         IN  <<noCr>> \o lines(rest)

----------------------------------------------------------------------------
(* parse_kernel_cmdline *)

\* The comparison of lines 216-221: hwaddr.to_string().to_lowercase().eq(mac)
HwaddrEq(hwaddr, mac_address) ==
    to_lowercase(MacToString(hwaddr)) = mac_address

\* Line 224 is missing: `device` keeps the name of a pair that did not match.
RECURSIVE CmdlineLoop_KeepDevice(_, _, _, _)
CmdlineLoop_KeepDevice(caps, i, device, mac_address) ==
    IF i > Len(caps) THEN device
    ELSE LET dev    == Some(caps[i].name)
             hwaddr == MacFromStr(caps[i].mac)
         IN  IF hwaddr[1] = "Err" THEN Err
             ELSE IF HwaddrEq(hwaddr[2], mac_address) THEN dev
             ELSE CmdlineLoop_KeepDevice(caps, i + 1, dev, mac_address)

\* The loop of lines 211-226 over the captures from the i-th on; its value
\* is `device` when the loop ends.
RECURSIVE CmdlineLoop(_, _, _, _)
CmdlineLoop(caps, i, device, mac_address) ==
    IF i > Len(caps) THEN device
    ELSE LET dev    == Some(caps[i].name)
             hwaddr == MacFromStr(caps[i].mac)
         IN  IF hwaddr[1] = "Err" THEN Err
             ELSE IF HwaddrEq(hwaddr[2], mac_address) THEN dev
             ELSE CmdlineLoop(caps, i + 1, None, mac_address)

parse_kernel_cmdline(mac_address, file) ==
    IF ~file.openable THEN Err
    ELSE LET kernel_cmdline == read_line(file.content)
         IN  IF ~IsValidUtf8(kernel_cmdline) THEN Err
             ELSE CmdlineLoop(captures_iter(kernel_cmdline), 1, None, mac_address)

----------------------------------------------------------------------------
(* parse_config_file *)

\* The first DEVICE= line wins instead of the last one.
RECURSIVE ConfigLoop_FirstDevice(_, _, _, _)
ConfigLoop_FirstDevice(ls, i, hwaddr, device) ==
    IF i > Len(ls) THEN <<"Ok", hwaddr, device>>
    ELSE IF ~IsValidUtf8(ls[i]) THEN Err
    ELSE LET hw == IF REGEX_HWADDR_is_match(ls[i])
                   THEN MacFromStr(REGEX_HWADDR_capture(ls[i]))
                   ELSE <<"NoMatch">>
             dv == IF REGEX_DEVICE_is_match(ls[i]) /\ ~IsSome(device)
                   THEN Some(REGEX_DEVICE_capture(ls[i]))
                   ELSE device
         IN  IF hw[1] = "Err" THEN Err
             ELSE ConfigLoop_FirstDevice(ls, i + 1,
                             IF hw[1] = "NoMatch" THEN hwaddr ELSE Some(hw[2]),
                             dv)

\* The loop of lines 264-280 over the lines from the i-th on; its value is
\* <<"Ok", hwaddr, device>> when the loop ends, Err when a `?` returns early.
RECURSIVE ConfigLoop(_, _, _, _)
ConfigLoop(ls, i, hwaddr, device) ==
    IF i > Len(ls) THEN <<"Ok", hwaddr, device>>
    ELSE IF ~IsValidUtf8(ls[i]) THEN Err
    ELSE LET hw == IF REGEX_HWADDR_is_match(ls[i])
                   THEN MacFromStr(REGEX_HWADDR_capture(ls[i]))
                   ELSE <<"NoMatch">>
             dv == IF REGEX_DEVICE_is_match(ls[i])
                   THEN Some(REGEX_DEVICE_capture(ls[i]))
                   ELSE device
         IN  IF hw[1] = "Err" THEN Err
             ELSE ConfigLoop(ls, i + 1,
                             IF hw[1] = "NoMatch" THEN hwaddr ELSE Some(hw[2]),
                             dv)

parse_config_file(file, mac_address) ==
    IF ~file.openable THEN Err
    ELSE LET r == ConfigLoop(lines(file.content), 1, None, None)
         IN  IF r[1] = "Err" THEN Err
             ELSE IF IsSome(r[2])
                  THEN IF ~HwaddrEq(r[2][2], mac_address) THEN None ELSE r[3]
                  ELSE None

----------------------------------------------------------------------------
(* scan_config_dir *)

\* The pattern is matched without regard to case.
GlobMatches_IgnoreCase(name) == HasAt(to_lowercase(name), 1, S_ifcfg)

\* Pattern::matches_with of "ifcfg-*", case_sensitive: true
GlobMatches(name) == HasAt(name, 1, S_ifcfg)

\* Ordering of file names by their bytes.
LexLess(a, b) ==
    \E i \in 1..(Len(a) + 1) :
        /\ \A j \in 1..(i - 1) : j <= Len(b) /\ a[j] = b[j]
        /\ \/ i = Len(a) + 1 /\ Len(b) >= i
           \/ i <= Len(a) /\ i <= Len(b) /\ Code(a[i]) < Code(b[i])

\* glob yields the matching paths of a directory sorted by file name.
RECURSIVE SortedSeq(_)
SortedSeq(S) ==
    IF S = {} THEN <<>>
    ELSE LET m == CHOOSE x \in S : \A y \in S \ {x} : LexLess(x, y)
         IN  <<m>> \o SortedSeq(S \ {m})

\* glob_with(config_dir + "/ifcfg-*"): the Ok entries; a directory that cannot
\* be read gives only Err entries, which line 174 skips.
GlobPaths(dir) ==
    IF dir.readable
    THEN SortedSeq({n \in DOMAIN dir.entries : GlobMatches(n)})
    ELSE <<>>

scan_config_dir(dir) ==
    LET config_paths == GlobPaths(dir)
    IN  IF config_paths # <<>> THEN Some(config_paths) ELSE None

----------------------------------------------------------------------------
(* Inputs *)

MaxCmdTokens == 2
MaxLines == 3
MaxEntries == 3
MaxFiles == 3

RECURSIVE Flatten(_)
Flatten(ss) == IF ss = <<>> THEN <<>> ELSE Head(ss) \o Flatten(Tail(ss))

Repeat(c, n) == [i \in 1..n |-> c]

SeqsUpTo(S, n) == UNION {[1..k -> S] : k \in 0..n}

MAC1 == <<170, 187, 204, 221, 238, 31>>
MAC2 == <<170, 187, 204, 221, 238, 47>>

MAC1_UPPER == MacToString(MAC1)
MAC1_LOWER == to_lowercase(MacToString(MAC1))
MAC2_UPPER == MacToString(MAC2)

CanonicalMacs == {to_lowercase(MacToString(MAC1)), to_lowercase(MacToString(MAC2))}

File(content) == [openable |-> TRUE, content |-> content]
NoFile == [openable |-> FALSE, content |-> <<>>]

Ifname(name, mac) == S_ifname \o name \o <<":">> \o mac

CmdNames ==
    { <<"x">>, <<"e","t","h","0">>, <<":">>, <<"a"," ","b">>,
      Repeat("n", NameTailMax + 1), Repeat("n", NameTailMax + 2) }

CmdTokens ==
    {Ifname(n, m) : n \in CmdNames, m \in {MAC1_UPPER, MAC1_LOWER, MAC2_UPPER}}
        \cup { <<"r","o">>, <<"\n">>, Ifname(<<"x">>, <<"a","a">>) }

\* Each token is followed by a space.
CmdText(tokens) ==
    Flatten([i \in 1..Len(tokens) |-> tokens[i] \o <<" ">>])

CmdlineFiles ==
    {NoFile} \cup {File(CmdText(ts)) : ts \in SeqsUpTo(CmdTokens, MaxCmdTokens)}

CfgLines ==
    { S_DEVICE \o <<"x">>,
      <<" ", "\t">> \o S_DEVICE \o <<"e","t","h","0","\r">>,
      S_DEVICE \o Repeat("n", NameTailMax + 2),
      S_DEVICE \o <<":","x">>,
      S_DEVICE,
      <<"#">> \o S_DEVICE \o <<"y">>,
      S_HWADDR \o MAC1_UPPER,
      <<" ">> \o S_HWADDR \o MAC1_LOWER \o <<":","0","0">>,
      S_HWADDR \o MAC2_UPPER,
      <<"#", BadByte>> }

\* Each line is followed by a newline.
CfgText(ls) ==
    Flatten([i \in 1..Len(ls) |-> ls[i] \o <<"\n">>])

ConfigFiles ==
    {NoFile} \cup {File(CfgText(ls)) : ls \in SeqsUpTo(CfgLines, MaxLines)}

Name(suffix) == S_ifcfg \o suffix

EntryNames ==
    { Name(<<"e","t","h","0">>), Name(<<"e","t","h","1">>), Name(<<>>),
      Name(<<"E","t","h","0">>),
      <<"r","e","a","d","m","e",".","t","x","t">>,
      <<"I","F","C","F","G","-","e","t","h","0">>,
      <<"x">> \o Name(<<"a">>),
      <<"i","f","c","f","g">> }

Dirs(names, files, n) ==
    UNION {[S -> files] : S \in {T \in SUBSET names : Cardinality(T) <= n}}

\* The path of the file the config parser is called on by itself.
TEST_CONFIG == Name(<<"e","t","h","0">>)

KERNEL_CMDLINE == <<"/","p","r","o","c","/","c","m","d","l","i","n","e">>

\* Inputs of main.
MainCmdlineFiles ==
    { NoFile,
      File(CmdText(<<Ifname(<<"x">>, MAC1_UPPER)>>)),
      File(CmdText(<<Ifname(<<"e","t","h","0">>, MAC1_LOWER)>>)),
      File(CmdText(<<Ifname(<<"y">>, MAC2_UPPER), Ifname(<<":","x">>, MAC1_LOWER)>>)),
      File(CmdText(<<Ifname(<<"y">>, MAC2_UPPER)>>)),
      File(<<BadByte>> \o CmdText(<<Ifname(<<"x">>, MAC1_UPPER)>>)) }

BoundToX == File(CfgText(<<S_HWADDR \o MAC1_UPPER, S_DEVICE \o <<"x">>>>))

MainConfigFiles ==
    { NoFile,
      BoundToX,
      File(CfgText(<<S_DEVICE \o <<"e","t","h","0">>, S_HWADDR \o MAC1_LOWER>>)),
      File(CfgText(<<S_HWADDR \o MAC2_UPPER, S_DEVICE \o <<"y">>>>)),
      File(CfgText(<<S_HWADDR \o MAC1_UPPER, S_DEVICE \o <<"x">>, <<BadByte>>>>)) }

README == <<"r","e","a","d","m","e">>

\* ifcfg-a, ifcfg-b, ... and an entry that is no ifcfg file.
MainNames == {Name(<<Lower[i]>>) : i \in 1..MaxFiles} \cup {README}

\* The entry that is no ifcfg file holds a binding of the target MAC.
MainDirs ==
    {[readable |-> TRUE, entries |-> e] :
        e \in {d \in Dirs(MainNames, MainConfigFiles, MaxFiles) :
                  README \in DOMAIN d => d[README] = BoundToX}}
    \cup {[readable |-> FALSE, entries |-> e] :
             e \in Dirs({Name(<<"a">>)}, MainConfigFiles, 1)}

\* What main is started with: the MAC text of args[3] or the result of
\* mac_address_by_name.
MacSources ==
    {<<"arg", m>> : m \in {MAC1_UPPER, MAC1_LOWER, <<"x">>}}
        \cup {<<"iface", Some(MAC1)>>, <<"iface", None>>}

----------------------------------------------------------------------------
(* main *)

InitLocals ==
    /\ simple_mac_address = <<>>
    /\ device_config_name = <<>>
    /\ ifcfg_paths = <<>>
    /\ idx = 1
    /\ handles = {}
    /\ opened = <<>>
    /\ dir_scans = 0
    /\ stdout = <<>>
    /\ warnings = <<>>
    /\ status = "running"
    /\ ret = <<"NotCalled">>

Init ==
    /\ pc = "start"
    /\ cmdline_file \in MainCmdlineFiles
    /\ config_dir \in MainDirs
    /\ InitLocals

\* Lines 56-79: the value of simple_mac_address, or the way main ends.
\* env is the state of the variable INTERFACE, src the source of the MAC.
TargetMac(env, src) ==
    IF env = "unset" THEN <<"panic">>
    ELSE IF env = "not_unicode" THEN <<"exit1">>
    ELSE IF src[1] = "iface"
         THEN IF IsSome(src[2])
              THEN <<"Ok", to_lowercase(MacToString(src[2][2]))>>
              ELSE <<"exit1">>
         ELSE LET m == MacFromStr(src[2])
              IN  IF m[1] = "Ok"
                  THEN <<"Ok", to_lowercase(MacToString(m[2]))>>
                  ELSE <<"exit1">>

\* Lines 47-87.
Start ==
    /\ pc = "start"
    /\ \E env \in {"set", "unset", "not_unicode"}, src \in MacSources :
          LET t == TargetMac(env, src)
          IN  IF t[1] = "Ok"
              THEN /\ simple_mac_address' = t[2]
                   /\ pc' = "open_cmdline"
                   /\ status' = status
              ELSE /\ simple_mac_address' = simple_mac_address
                   /\ pc' = "done"
                   /\ status' = t[1]
    /\ UNCHANGED <<cmdline_file, config_dir, device_config_name, ifcfg_paths,
                   idx, handles, opened, dir_scans, stdout, warnings, ret>>

\* A kernel-style name is dropped instead of only warned about.
CmdlineArm_RejectKernelName(r) ==
    IF IsSome(r) /\ ~is_like_kernel_name(r[2]) THEN r[2] ELSE <<>>

\* Lines 94-105: the value of the match on the result of parse_kernel_cmdline.
CmdlineArm(r) == IF IsSome(r) THEN r[2] ELSE <<>>

\* The ifcfg files are looked into whatever the kernel cmdline gave.
NeedsIfcfgLookup_Always(name) == TRUE

\* Line 109.
NeedsIfcfgLookup(name) == name = <<>>

\* Lines 96-98 and 134-136.
Warn(name) ==
    IF is_like_kernel_name(name) THEN Append(warnings, name) ELSE warnings

\* The error of File::open is propagated by main and ends the process.
OpenKernelCmdline_Propagate ==
    /\ pc = "open_cmdline"
    /\ IF cmdline_file.openable
       THEN /\ handles' = handles \cup {KERNEL_CMDLINE}
            /\ pc' = "read_cmdline"
            /\ status' = status
       ELSE /\ handles' = handles
            /\ pc' = "done"
            /\ status' = "exit1"
    /\ UNCHANGED <<cmdline_file, config_dir, simple_mac_address,
                   device_config_name, ifcfg_paths, idx, opened, dir_scans,
                   stdout, warnings, ret>>

\* Line 188, called from line 94: File::open of the kernel cmdline. When it
\* fails parse_kernel_cmdline returns the error and main takes the arm `_`.
OpenKernelCmdline ==
    /\ pc = "open_cmdline"
    /\ IF cmdline_file.openable
       THEN /\ handles' = handles \cup {KERNEL_CMDLINE}
            /\ pc' = "read_cmdline"
            /\ UNCHANGED device_config_name
       ELSE /\ handles' = handles
            /\ device_config_name' = CmdlineArm(Err)
            /\ pc' = IF NeedsIfcfgLookup(CmdlineArm(Err)) THEN "scan" ELSE "output"
    /\ UNCHANGED <<cmdline_file, config_dir, simple_mac_address, ifcfg_paths,
                   idx, opened, dir_scans, stdout, warnings, status, ret>>

\* The File values dropped when parse_kernel_cmdline returns (line 234, and
\* the early returns of `?`).
CmdlineDropped == {KERNEL_CMDLINE}

\* Lines 189-234 and 94-109: the rest of parse_kernel_cmdline, whose return
\* drops the reader and its File, and the match of main on its result.
ReadKernelCmdline ==
    /\ pc = "read_cmdline"
    /\ LET r    == parse_kernel_cmdline(simple_mac_address, cmdline_file)
           name == CmdlineArm(r)
       IN  /\ handles' = handles \ CmdlineDropped
           /\ device_config_name' = name
           /\ warnings' = IF IsSome(r) THEN Warn(r[2]) ELSE warnings
           /\ pc' = IF NeedsIfcfgLookup(name) THEN "scan" ELSE "output"
    /\ UNCHANGED <<cmdline_file, config_dir, simple_mac_address, ifcfg_paths,
                   idx, opened, dir_scans, stdout, status, ret>>

\* Lines 111-128.
ScanConfigDir ==
    /\ pc = "scan"
    /\ dir_scans' = dir_scans + 1
    /\ LET r == scan_config_dir(config_dir)
       IN  IF IsSome(r)
           THEN /\ ifcfg_paths' = r[2]
                /\ idx' = 1
                /\ device_config_name' = <<>>
                /\ pc' = "loop"
                /\ status' = status
           ELSE /\ pc' = "done"
                /\ status' = "exit1"
                /\ UNCHANGED <<ifcfg_paths, idx, device_config_name>>
    /\ UNCHANGED <<cmdline_file, config_dir, simple_mac_address, handles,
                   opened, stdout, warnings, ret>>

\* The search ends at the first file that gives no name.
AfterNoName_Break == "output"

\* Line 140, `_ => continue`: where the loop goes on after a file without a name.
AfterNoName == "loop"

\* Lines 129-132 and 238: the next path of the loop and File::open on it.
\* When it fails parse_config_file returns the error and the loop continues.
OpenConfigFile ==
    /\ pc = "loop"
    /\ idx <= Len(ifcfg_paths)
    /\ LET path == ifcfg_paths[idx]
       IN  /\ opened' = Append(opened, path)
           /\ IF config_dir.entries[path].openable
              THEN /\ handles' = handles \cup {path}
                   /\ pc' = "read_config"
                   /\ idx' = idx
              ELSE /\ handles' = handles
                   /\ pc' = AfterNoName
                   /\ idx' = idx + 1
    /\ UNCHANGED <<cmdline_file, config_dir, simple_mac_address,
                   device_config_name, ifcfg_paths, dir_scans, stdout,
                   warnings, status, ret>>

\* The File of a config file is kept alive after the parse.
ConfigDropped_Leak(path) == {}

\* The File values dropped when parse_config_file returns (line 292, and the
\* early returns of `?`).
ConfigDropped(path) == {path}

\* Lines 239-292 and 133-141: the rest of parse_config_file, whose return
\* drops the reader and its File, and the match of main on its result.
ReadConfigFile ==
    /\ pc = "read_config"
    /\ LET path == ifcfg_paths[idx]
           r    == parse_config_file(config_dir.entries[path], simple_mac_address)
       IN  /\ handles' = handles \ ConfigDropped(path)
           /\ IF IsSome(r)
              THEN /\ warnings' = Warn(r[2])
                   /\ device_config_name' = r[2]
                   /\ pc' = "output"
                   /\ idx' = idx
              ELSE /\ warnings' = warnings
                   /\ device_config_name' = device_config_name
                   /\ pc' = AfterNoName
                   /\ idx' = idx + 1
    /\ UNCHANGED <<cmdline_file, config_dir, simple_mac_address, ifcfg_paths,
                   opened, dir_scans, stdout, status, ret>>

\* Line 129: the iterator is exhausted.
EndLoop ==
    /\ pc = "loop"
    /\ idx > Len(ifcfg_paths)
    /\ pc' = "output"
    /\ UNCHANGED <<cmdline_file, config_dir, simple_mac_address,
                   device_config_name, ifcfg_paths, idx, handles, opened,
                   dir_scans, stdout, warnings, status, ret>>

\* An empty name is printed too.
HasName_Always(name) == TRUE

\* Line 146.
HasName(name) == name # <<>>

\* Lines 146-152.
Output ==
    /\ pc = "output"
    /\ IF HasName(device_config_name)
       THEN /\ stdout' = Append(stdout, device_config_name)
            /\ status' = "success"
       ELSE /\ stdout' = stdout
            /\ status' = "exit1"
    /\ pc' = "done"
    /\ UNCHANGED <<cmdline_file, config_dir, simple_mac_address,
                   device_config_name, ifcfg_paths, idx, handles, opened,
                   dir_scans, warnings, ret>>

Next ==
    \/ Start
    \/ OpenKernelCmdline
    \/ ReadKernelCmdline
    \/ ScanConfigDir
    \/ OpenConfigFile
    \/ ReadConfigFile
    \/ EndLoop
    \/ Output

Spec == Init /\ [][Next]_vars

----------------------------------------------------------------------------
(* The functions called by themselves, as the unit tests call them *)

InitCmdline ==
    /\ pc = "call"
    /\ cmdline_file \in CmdlineFiles
    /\ config_dir = [readable |-> TRUE, entries |-> <<>>]
    /\ InitLocals

CallParseKernelCmdline ==
    /\ pc = "call"
    /\ \E m \in CanonicalMacs :
          /\ simple_mac_address' = m
          /\ ret' = parse_kernel_cmdline(m, cmdline_file)
    /\ pc' = "returned"
    /\ UNCHANGED <<cmdline_file, config_dir, device_config_name, ifcfg_paths,
                   idx, handles, opened, dir_scans, stdout, warnings, status>>

SpecCmdline == InitCmdline /\ [][CallParseKernelCmdline]_vars

InitConfig ==
    /\ pc = "call"
    /\ cmdline_file = NoFile
    /\ config_dir \in {[readable |-> TRUE, entries |-> e] :
                          e \in [{TEST_CONFIG} -> ConfigFiles]}
    /\ InitLocals

CallParseConfigFile ==
    /\ pc = "call"
    /\ \E m \in CanonicalMacs :
          /\ simple_mac_address' = m
          /\ ret' = parse_config_file(config_dir.entries[TEST_CONFIG], m)
    /\ pc' = "returned"
    /\ UNCHANGED <<cmdline_file, config_dir, device_config_name, ifcfg_paths,
                   idx, handles, opened, dir_scans, stdout, warnings, status>>

SpecConfig == InitConfig /\ [][CallParseConfigFile]_vars

InitScan ==
    /\ pc = "call"
    /\ cmdline_file = NoFile
    /\ config_dir \in {[readable |-> b, entries |-> e] :
                          b \in BOOLEAN, e \in Dirs(EntryNames, {NoFile}, MaxEntries)}
    /\ InitLocals

CallScanConfigDir ==
    /\ pc = "call"
    /\ ret' = scan_config_dir(config_dir)
    /\ pc' = "returned"
    /\ UNCHANGED <<cmdline_file, config_dir, simple_mac_address,
                   device_config_name, ifcfg_paths, idx, handles, opened,
                   dir_scans, stdout, warnings, status>>

SpecScan == InitScan /\ [][CallScanConfigDir]_vars

----------------------------------------------------------------------------
(* Properties of main *)

\* What the kernel cmdline gives for the target MAC.
CmdlineResult == parse_kernel_cmdline(simple_mac_address, cmdline_file)

\* The entries of the config directory named ifcfg-*, when it can be listed.
Candidates ==
    IF config_dir.readable
    THEN {n \in DOMAIN config_dir.entries :
             Len(n) >= 6 /\ SubSeq(n, 1, 6) = <<"i","f","c","f","g","-">>}
    ELSE {}

FileResult(n) == parse_config_file(config_dir.entries[n], simple_mac_address)

\* The candidates that give a name for the target MAC.
Yielding == {n \in Candidates : IsSome(FileResult(n))}

\* The candidates in enumeration order.
Enumeration == GlobPaths(config_dir)

\* Position in the enumeration of the first candidate that gives a name.
FirstYielding ==
    Min({i \in 1..Len(Enumeration) : IsSome(FileResult(Enumeration[i]))})

Started == simple_mac_address # <<>>

\* C1: when the kernel cmdline gives a name for the target MAC, the config
\* directory is never scanned, no config file is ever opened, and the run ends
\* with success and exactly that name on standard output, whatever the config
\* directory holds.
C1_CmdlineNameWins ==
    /\ (dir_scans # 0 \/ opened # <<>> \/ ifcfg_paths # <<>>) =>
          ~IsSome(CmdlineResult)
    /\ pc = "done" =>
          LET r == CmdlineResult
          IN  IsSome(r) => status = "success" /\ stdout = <<r[2]>>

\* A finished run where the cmdline gave a name and a config file binds the
\* same MAC to another name.
C1_Witness ==
    /\ pc = "done"
    /\ IsSome(CmdlineResult)
    /\ stdout = <<CmdlineResult[2]>>
    /\ \E n \in Yielding : FileResult(n)[2] # CmdlineResult[2]

\* C2: when the kernel cmdline gives no name, the config files are opened in
\* enumeration order: the files opened are always a prefix of the enumeration
\* in which only the last one may give a name; a finished run has printed the
\* DEVICE name of that last file, or has opened every candidate without
\* finding a name and printed nothing.
C2_FirstFileWins ==
    Started =>
        LET enum == Enumeration
            n    == Len(opened)
            res  == [i \in 1..n |-> FileResult(opened[i])]
        IN  /\ n <= Len(enum)
            /\ opened = SubSeq(enum, 1, n)
            /\ \A i \in 1..(n - 1) : ~IsSome(res[i])
            /\ (pc = "done" /\ ~IsSome(CmdlineResult)) =>
                  IF n > 0 /\ IsSome(res[n])
                  THEN stdout = <<res[n][2]>>
                  ELSE opened = enum /\ stdout = <<>>

\* A finished run that skipped a file whose read failed, took the next file's
\* name and left unopened a later file that binds the MAC to another name.
C2_Witness ==
    /\ pc = "done"
    /\ ~IsSome(CmdlineResult)
    /\ Len(opened) = 2
    /\ Len(Enumeration) = 3
    /\ FileResult(opened[1]) = Err
    /\ IsSome(FileResult(Enumeration[3]))
    /\ stdout = <<FileResult(opened[2])[2]>>
    /\ stdout # <<FileResult(Enumeration[3])[2]>>

\* C3: a run in which neither source gives a name ends with a non-zero status
\* and nothing on standard output; standard output holds a name only in a run
\* that ends with success, and then exactly one.
C3_FailureWritesNothing ==
    /\ status # "success" => stdout = <<>>
    /\ status = "success" => Len(stdout) = 1 /\ stdout[1] # <<>> /\ pc = "done"
    /\ pc = "done" => status # "running"
    /\ (pc = "done" /\ status = "success") =>
          IsSome(CmdlineResult) \/ Yielding # {}

\* A finished run where the cmdline has no matching entry and every candidate
\* file was tried without a match.
C3_Witness ==
    /\ pc = "done"
    /\ Started
    /\ CmdlineResult = None
    /\ Yielding = {}
    /\ Len(Enumeration) >= 2
    /\ opened = Enumeration
    /\ status = "exit1"
    /\ stdout = <<>>

\* What the two sources give for the target MAC, computed without
\* is_like_kernel_name: the name (<<>> when there is none) and the config
\* files that are opened to find it.
Resolution ==
    LET r    == CmdlineResult
        enum == Enumeration
        res  == [i \in 1..Len(enum) |-> FileResult(enum[i])]
        hits == {i \in 1..Len(enum) : IsSome(res[i])}
    IN  IF IsSome(r) THEN <<r[2], <<>>>>
        ELSE IF hits # {} THEN <<res[Min(hits)][2], SubSeq(enum, 1, Min(hits))>>
        ELSE <<<<>>, enum>>

Resolved == Resolution[1]
Selected == Resolution[2]

\* C8: the advisory does not change the outcome: a finished run returns the
\* resolved name with success whether or not the name is kernel-style, the
\* source and the files selected do not depend on is_like_kernel_name, and the
\* only effect of a kernel-style name is one warning.
C8_AdvisoryKeepsOutcome ==
    (pc = "done" /\ Started) =>
        LET r    == Resolution
            name == r[1]
        IN  /\ opened = r[2]
            /\ name # <<>> => status = "success" /\ stdout = <<name>>
            /\ warnings = IF name # <<>> /\ is_like_kernel_name(name)
                          THEN <<name>> ELSE <<>>

\* A finished run whose name is kernel-style: warned about, and returned.
C8_Witness ==
    /\ pc = "done"
    /\ is_like_kernel_name(Resolved)
    /\ warnings = <<Resolved>>
    /\ stdout = <<Resolved>>
    /\ status = "success"

\* C9: at most one file handle is open at any point: none while the config
\* directory is scanned or between two config files, and only the file being
\* parsed otherwise.
C9_OneHandle ==
    /\ Cardinality(handles) <= 1
    /\ pc \in {"scan", "loop", "output", "done"} => handles = {}
    /\ pc = "read_cmdline" => handles = {KERNEL_CMDLINE}
    /\ pc = "read_config" => handles = {ifcfg_paths[idx]}

\* The third config file is open, after one that gave no name and one whose
\* read failed.
C9_Witness ==
    /\ pc = "read_config"
    /\ idx = 3
    /\ handles = {ifcfg_paths[3]}
    /\ \E i \in 1..2 : config_dir.entries[ifcfg_paths[i]].openable
                        /\ FileResult(ifcfg_paths[i]) = Err
    /\ \E i \in 1..2 : FileResult(ifcfg_paths[i]) = None

\* The kernel cmdline cannot be read: File::open fails, or the first line is
\* not valid UTF-8.
CmdlineUnreadable ==
    \/ ~cmdline_file.openable
    \/ ~IsValidUtf8(read_line(cmdline_file.content))

\* C10: a kernel cmdline that cannot be read does not end the run: main goes
\* on to the config directory with no name, as when the cmdline has no match,
\* and the run ends with success and the name of the first config file giving
\* one, if any.
C10_CmdlineErrorFallsBack ==
    (Started /\ CmdlineUnreadable) =>
        /\ pc \in {"scan", "loop"} => device_config_name = <<>>
        /\ pc = "done" =>
              LET r    == Resolution
                  name == r[1]
              IN  /\ dir_scans = 1
                  /\ opened = r[2]
                  /\ name # <<>> => status = "success" /\ stdout = <<name>>
                  /\ name = <<>> => status = "exit1" /\ stdout = <<>>

\* A run whose kernel cmdline file is missing ends with the name of a config
\* file.
C10_Witness ==
    /\ pc = "done"
    /\ ~cmdline_file.openable
    /\ status = "success"
    /\ Yielding # {}
    /\ stdout = <<Resolved>>

\* A DeviceName: 1 to 15 characters, no ':', no whitespace first.
ValidDeviceName(name) ==
    /\ Len(name) >= 1
    /\ Len(name) <= NameTailMax + 1
    /\ \A i \in 1..Len(name) : name[i] # ":"
    /\ name[1] \notin WhiteSpace

\* C7: every device name printed is a non-empty string of at most 15
\* characters without ':' whose first character is not whitespace.
C7_NamesAreValid ==
    \A i \in 1..Len(stdout) : ValidDeviceName(stdout[i])

----------------------------------------------------------------------------
(* Properties of the functions *)

\* The line of the kernel cmdline and its ifname= occurrences, left to right.
CmdLine == read_line(cmdline_file.content)
Occurrences == captures_iter(CmdLine)

\* The occurrences whose MAC is the target, compared without regard to case.
MatchingOccurrences ==
    {i \in 1..Len(Occurrences) :
        to_lowercase(Occurrences[i].mac) = to_lowercase(simple_mac_address)}

\* C4: parse_kernel_cmdline returns the name of the leftmost ifname= occurrence
\* whose MAC equals the target without regard to case, and Ok(None), not an
\* error, when no occurrence has that MAC.
C4_FirstMatchingPair ==
    (pc = "returned" /\ cmdline_file.openable /\ IsValidUtf8(CmdLine)) =>
        ret = IF MatchingOccurrences = {} THEN None
              ELSE Some(Occurrences[Min(MatchingOccurrences)].name)

\* The second occurrence matched after a first one with another MAC.
C4_Witness ==
    /\ pc = "returned"
    /\ Len(Occurrences) = 2
    /\ MatchingOccurrences = {2}
    /\ ret = Some(Occurrences[2].name)

\* The lines of the config file under test.
CfgLinesRead == lines(config_dir.entries[TEST_CONFIG].content)
HwaddrLines == {i \in 1..Len(CfgLinesRead) : REGEX_HWADDR_is_match(CfgLinesRead[i])}
DeviceLines == {i \in 1..Len(CfgLinesRead) : REGEX_DEVICE_is_match(CfgLinesRead[i])}

\* C5: for a file that is read to its end, parse_config_file returns a name
\* exactly when the file has an HWADDR= line, the last one equals the target
\* without regard to case, and the file has a DEVICE= line; the name is the
\* value of the last DEVICE= line. Otherwise it returns Ok(None).
C5_LastHwaddrLastDevice ==
    (/\ pc = "returned"
     /\ config_dir.entries[TEST_CONFIG].openable
     /\ \A i \in 1..Len(CfgLinesRead) : IsValidUtf8(CfgLinesRead[i])) =>
        ret = IF /\ HwaddrLines # {}
                 /\ to_lowercase(REGEX_HWADDR_capture(CfgLinesRead[Max(HwaddrLines)]))
                       = to_lowercase(simple_mac_address)
                 /\ DeviceLines # {}
              THEN Some(REGEX_DEVICE_capture(CfgLinesRead[Max(DeviceLines)]))
              ELSE None

\* Two DEVICE= lines before the matching HWADDR= line: the second name.
C5_Witness ==
    /\ pc = "returned"
    /\ Cardinality(DeviceLines) = 2
    /\ HwaddrLines # {}
    /\ Max(DeviceLines) < Max(HwaddrLines)
    /\ IsSome(ret)
    /\ ret[2] = REGEX_DEVICE_capture(CfgLinesRead[Max(DeviceLines)])
    /\ ret[2] # REGEX_DEVICE_capture(CfgLinesRead[Min(DeviceLines)])

\* C6: scan_config_dir returns exactly the entries of the directory named
\* ifcfg-*, each once, and None instead of an empty sequence when there is
\* none or the directory cannot be listed.
C6_ExactlyIfcfgEntries ==
    pc = "returned" =>
        IF Candidates # {}
        THEN /\ IsSome(ret)
             /\ {ret[2][i] : i \in 1..Len(ret[2])} = Candidates
             /\ Len(ret[2]) = Cardinality(Candidates)
        ELSE ret = None

\* A directory with two ifcfg-* entries and another entry.
C6_Witness ==
    /\ pc = "returned"
    /\ IsSome(ret)
    /\ Len(ret[2]) = 2
    /\ Cardinality(DOMAIN config_dir.entries) = 3

====
